---------------------------- MODULE Spec2Model ----------------------------
(***************************************************************************)
(* A model of nurses: the cooperative scheduler (nurses/scheduler.py), the *)
(* scheduler of a ScreenManager (nurses/screen_manager.py), and the        *)
(* widgets (nurses/widgets/widget.py): their hint/absolute geometry        *)
(* attributes, convert, the widget tree with update_geometry, dispatch of  *)
(* key presses, the z-order calls, refresh onto a parent through the       *)
(* curses backend, and the Bouncing behaviour                              *)
(* (nurses/widgets/behaviors/bouncing.py).                                 *)
(*                                                                         *)
(* Scheduler part.  Coroutines are numbered 1..NumCoros; a Task wraps one  *)
(* coroutine, so a task is named by its coroutine.  time() is the variable *)
(* clock, which never decreases; time.sleep(x) advances it by x.  One loop *)
(* iteration of Scheduler.run is split at coro.send(None): Iterate is the  *)
(* part before the send, the coroutine's body then runs (calls it makes    *)
(* into the scheduler are actions of their own), and the action that       *)
(* suspends, completes or fails the coroutine holds the rest of the        *)
(* iteration.                                                              *)
(***************************************************************************)
EXTENDS Integers, Sequences, FiniteSets

\* ------------------------------------------------------------------ bounds
NumCoros  == 3      \* coroutine objects that may be created
MaxClock  == 3      \* horizon of the virtual clock
MaxDelay  == 2      \* longest sleep / periodic delay
MaxRepeat == 2      \* largest n given to schedule
MaxFuel   == 1      \* suspensions a hand-written coroutine makes before it ends
NumMixed  == 2      \* coroutine objects where periodic tasks take part
MaxCoord  == 1      \* largest top / left assigned to a widget
MaxSize   == 2      \* largest height / width assigned to a widget
NumWidgets == 3     \* widgets that may be made under the root
NumSized  == 2      \* widgets made where positions, sizes and hints vary
RootHeight == 4     \* rows of the root widget
RootWidth == 6      \* columns of the root widget
MinParent == 4      \* smallest height / width of a parent that is refreshed
MaxParent == 5      \* largest height / width of a parent that is refreshed
MaxChild  == 3      \* largest height / width of a child that is drawn
MaxBound  == 6      \* largest parent height / width given to convert
MaxSpec   == 7      \* largest magnitude of an integer position given to convert
MaxTenths == 15     \* largest magnitude of a float position, in tenths
MinArena  == 3      \* smallest height / width of the parent of a bouncing widget
MaxArena  == 4      \* largest height / width of the parent of a bouncing widget
MaxBouncer == 3     \* largest height / width of a bouncing widget

None == -99         \* an attribute that holds no number (no coordinate or time gets there)
NoTask == 0         \* self.current = None

Coros == 1..NumCoros

VARIABLES
    pc,           \* "idle" | "loop" | "running" | "drained" | "aborted": where run is
    clock,        \* what time() returns
    ready,        \* Scheduler.ready, a deque of tasks
    sleeping,     \* Scheduler.sleeping, the heapq list of tasks
    tasks,        \* Scheduler.tasks, the keys of the registry
    current,      \* Scheduler.current
    is_canceled,  \* Task.is_canceled
    deadline,     \* Task.deadline (None until the first sleep)
    life,         \* each coroutine: "new" | "live" | "done" | "failed"
    kind,         \* "none" | "coro" (hand-written) | "periodic" (built by schedule)
    delay,        \* schedule's delay of a periodic wrapper
    n,            \* schedule's n of a periodic wrapper
    iter,         \* iterations of `for _ in range(n)` the wrapper has started
    fuel,         \* suspensions a hand-written coroutine still makes
    phase,        \* of the running wrapper: "resumed" | "invoked"
    \* ---- observations (history), never read by the scheduler
    sleepAt,      \* clock at the task's pending sleep call, None when not waiting on a timer
    sleepDur,     \* the duration given to that sleep call
    sleepOrder,   \* tasks waiting on a timer, in the order of their sleep calls
    ahead,        \* tasks that were in ready when the task was appended and not popped since
    calls,        \* invocations of a periodic task's callable (counted when n > 0)
    lastCall,     \* clock at the last invocation (kept when delay > 0)
    minGap,       \* smallest clock distance between two consecutive invocations
    hitPending,   \* cancel was called on the task while it waited in a queue
    cancelError,  \* a cancel call raised
    blocked       \* the last iteration blocked in time.sleep before its pop

VARIABLES
    top, left,    \* Widget.top, Widget.left
    height,       \* Widget.height (None until it is given or resolved)
    width,        \* Widget.width
    pos_hint,     \* Widget.pos_hint, a pair of hints
    size_hint,    \* Widget.size_hint
    lastSet       \* observation: the attribute assigned last, and the hints before

VARIABLES
    converted     \* a call of Widget.convert: its arguments and what it returned

VARIABLES
    parent,       \* Widget.parent of every widget, None for none
    children,     \* Widget.children, back to front
    geometry,     \* top, left, height, width, pos_hint, size_hint and window of every widget
    group,        \* Widget.group of every widget (the members under one key)
    made,         \* how many widgets have been constructed
    lastOp        \* observation: the last tree operation and the state it started from

VARIABLES
    press         \* a call of dispatch: the key, the on_press calls made, the value returned

VARIABLES
    drawn         \* a call of refresh: parent, child, the copy asked of curses, the cells after

VARIABLES
    pending       \* what screen.getch() returns when it is called next

VARIABLES
    restacked     \* a z-order call: the list it was given, its argument, what it raised

VARIABLES
    bouncer       \* a Bouncing widget: pos, vel, top, left, its size, its parent's size

widgetVars == <<top, left, height, width, pos_hint, size_hint, lastSet>>
drawVars == <<drawn>>
convVars == <<converted>>
pressVars == <<press>>
treeVars == <<parent, children, geometry, group, made, lastOp>>

schedVars == <<pc, clock, ready, sleeping, tasks, current, is_canceled, deadline,
               life, kind, delay, n, iter, fuel, phase>>
histVars  == <<sleepAt, sleepDur, sleepOrder, ahead, calls, lastCall, minGap,
               hitPending, cancelError, blocked>>
\* what the scheduler's actions leave alone
keyVars == <<pending>>
stackVars == <<restacked>>
bounceVars == <<bouncer>>
uiVars == <<widgetVars, convVars, treeVars, pressVars, drawVars, keyVars, stackVars, bounceVars>>
\* what the assignments to one widget's attributes leave alone
exceptWidget == <<schedVars, histVars, convVars, treeVars, pressVars, drawVars, keyVars, stackVars, bounceVars>>
exceptConv == <<schedVars, histVars, widgetVars, treeVars, pressVars, drawVars, keyVars, stackVars, bounceVars>>
exceptTree == <<schedVars, histVars, widgetVars, convVars, pressVars, drawVars, keyVars, stackVars, bounceVars>>
exceptPress == <<schedVars, histVars, widgetVars, convVars, drawVars, keyVars, stackVars, bounceVars>>
exceptDraw == <<schedVars, histVars, widgetVars, convVars, treeVars, pressVars, keyVars, stackVars, bounceVars>>
exceptStack == <<schedVars, histVars, widgetVars, convVars, pressVars, drawVars, keyVars, bounceVars>>
exceptBounce == <<schedVars, histVars, widgetVars, convVars, treeVars, pressVars, drawVars, keyVars, stackVars>>
exceptKey == <<schedVars, histVars, widgetVars, convVars, treeVars, pressVars, drawVars, stackVars, bounceVars>>
vars == <<schedVars, histVars, widgetVars, convVars, treeVars, pressVars, drawVars, keyVars, stackVars, bounceVars>>

Range(s) == {s[i] : i \in 1..Len(s)}

\* ------------------------------------------------------------------ heapq
\* Task.__lt__ with the comparison turned round.
LtReversed(a, b, dl) == dl[a] > dl[b]

\* Task.__lt__: tasks compare by deadline alone.
Lt(a, b, dl) == dl[a] < dl[b]

\* heapq._siftdown(heap, startpos, pos); positions are 0-based as in heapq.
RECURSIVE SiftDownLoop(_, _, _, _, _)
SiftDownLoop(h, startpos, pos, newitem, dl) ==
    IF pos > startpos
    THEN LET parentpos == (pos - 1) \div 2
             parentitem == h[parentpos + 1]
         IN IF Lt(newitem, parentitem, dl)
            THEN SiftDownLoop([h EXCEPT ![pos + 1] = parentitem], startpos, parentpos,
                              newitem, dl)
            ELSE [h EXCEPT ![pos + 1] = newitem]
    ELSE [h EXCEPT ![pos + 1] = newitem]

siftdown(h, startpos, pos, dl) == SiftDownLoop(h, startpos, pos, h[pos + 1], dl)

\* heapq._siftup(heap, pos): bubble the smaller child up to a leaf, then sift down.
RECURSIVE SiftUpLoop(_, _, _, _, _)
SiftUpLoop(h, startpos, pos, newitem, dl) ==
    LET endpos   == Len(h)
        leftpos  == 2 * pos + 1
        rightpos == leftpos + 1
        childpos == IF rightpos < endpos /\ ~Lt(h[leftpos + 1], h[rightpos + 1], dl)
                    THEN rightpos ELSE leftpos
    IN IF leftpos < endpos
       THEN SiftUpLoop([h EXCEPT ![pos + 1] = h[childpos + 1]], startpos, childpos,
                       newitem, dl)
       ELSE siftdown([h EXCEPT ![pos + 1] = newitem], startpos, pos, dl)

siftup(h, pos, dl) == SiftUpLoop(h, pos, pos, h[pos + 1], dl)

\* heapq.heappush(heap, item)
heappush(h, item, dl) == siftdown(Append(h, item), 0, Len(h), dl)

\* heapq.heappop(heap): the item returned, and the heap left.
heappopItem(h) == h[1]

heappopRest(h, dl) ==
    IF Len(h) = 1 THEN <<>>
    ELSE siftup([SubSeq(h, 1, Len(h) - 1) EXCEPT ![1] = h[Len(h)]], 0, dl)

\* Expired timers are left in the heap.
MoveNothing(rdy, slp, now, dl) == [ready |-> rdy, sleeping |-> slp]

\* run, line 66-67: while sleeping and sleeping[0].deadline <= now: move to ready.
RECURSIVE MoveExpired(_, _, _, _)
MoveExpired(rdy, slp, now, dl) ==
    IF slp # <<>> /\ dl[slp[1]] <= now
    THEN MoveExpired(Append(rdy, heappopItem(slp)), heappopRest(slp, dl), now, dl)
    ELSE [ready |-> rdy, sleeping |-> slp]


\* ------------------------------------------------------------------ state
SchedInit ==
    /\ pc = "idle"
    /\ clock = 0
    /\ ready = <<>>
    /\ sleeping = <<>>
    /\ tasks = {}
    /\ current = NoTask
    /\ is_canceled = [c \in Coros |-> FALSE]
    /\ deadline = [c \in Coros |-> None]
    /\ life = [c \in Coros |-> "new"]
    /\ kind = [c \in Coros |-> "none"]
    /\ delay = [c \in Coros |-> 0]
    /\ n = [c \in Coros |-> 0]
    /\ iter = [c \in Coros |-> 0]
    /\ fuel = [c \in Coros |-> 0]
    /\ phase = "resumed"
    /\ sleepAt = [c \in Coros |-> None]
    /\ sleepDur = [c \in Coros |-> None]
    /\ sleepOrder = <<>>
    /\ ahead = [c \in Coros |-> {}]
    /\ calls = [c \in Coros |-> 0]
    /\ lastCall = [c \in Coros |-> None]
    /\ hitPending = [c \in Coros |-> FALSE]
    /\ cancelError = FALSE
    /\ minGap = [c \in Coros |-> None]
    /\ blocked = FALSE

\* A task waits in a queue.
Queued(c) == c \in Range(ready) \/ c \in Range(sleeping)

\* The body of a coroutine (or the callable of a periodic wrapper) is executing.
InBody == pc = "running" /\ (kind[current] = "coro" \/ phase = "invoked")

\* Code of the caller runs: before run, inside a task, or after run has ended.
UserCode == pc \in {"idle", "drained", "aborted"} \/ InBody

\* Time passes while the loop and the tasks run.
Tick ==
    /\ UNCHANGED uiVars
    /\ pc \in {"loop", "running"}
    /\ clock < MaxClock
    /\ clock' = clock + 1
    /\ UNCHANGED <<pc, ready, sleeping, tasks, current, is_canceled, deadline, life,
                   kind, delay, n, iter, fuel, phase, histVars>>

\* ------------------------------------------------------------------ run_soon, schedule, run
\* c is the next coroutine object to be created (objects are numbered in the
\* order of their creation).
Fresh(c) == life[c] = "new" /\ \A b \in Coros : b < c => life[b] # "new"

\* run_soon(coro): self.tasks[coro] = task = Task(coro); self.ready.append(task)
RunSoonOne(c, k, d, r) ==
    /\ tasks' = tasks \cup {c}
    /\ ready' = Append(ready, c)
    /\ is_canceled' = [is_canceled EXCEPT ![c] = FALSE]
    /\ life' = [life EXCEPT ![c] = "live"]
    /\ kind' = [kind EXCEPT ![c] = k]
    /\ delay' = [delay EXCEPT ![c] = d]
    /\ n' = [n EXCEPT ![c] = r]
    /\ fuel' = [fuel EXCEPT ![c] = IF k = "coro" THEN MaxFuel ELSE 0]
    /\ ahead' = [ahead EXCEPT ![c] = Range(ready)]

RunSoon(c) ==
    /\ UNCHANGED uiVars
    /\ pc = "idle" \/ InBody
    /\ Fresh(c)
    /\ RunSoonOne(c, "coro", 0, 0)
    /\ UNCHANGED <<pc, clock, sleeping, current, deadline, iter, phase, sleepAt,
                   sleepDur, sleepOrder, calls, lastCall, minGap, hitPending, cancelError, blocked>>

\* schedule(callable, delay=d, n=r): the wrapper coroutine is built and run_soon'ed.
Schedule(c, d, r) ==
    /\ UNCHANGED uiVars
    /\ pc = "idle" \/ InBody
    /\ Fresh(c)
    /\ RunSoonOne(c, "periodic", d, r)
    /\ UNCHANGED <<pc, clock, sleeping, current, deadline, iter, phase, sleepAt,
                   sleepDur, sleepOrder, calls, lastCall, minGap, hitPending, cancelError, blocked>>

\* run(*coros): run_soon(*coros), then the loop starts.
Run(c) ==
    /\ UNCHANGED uiVars
    /\ pc = "idle"
    /\ pc' = "loop"
    /\ IF c = NoTask
       THEN UNCHANGED <<tasks, ready, is_canceled, life, kind, delay, n, fuel, ahead>>
       ELSE Fresh(c) /\ RunSoonOne(c, "coro", 0, 0)
    /\ UNCHANGED <<clock, sleeping, current, deadline, iter, phase, sleepAt, sleepDur,
                   sleepOrder, calls, lastCall, minGap, hitPending, cancelError, blocked>>

\* ------------------------------------------------------------------ cancel
\* Task.cancel(), through the task handle.
TaskCancel(q) ==
    /\ UNCHANGED uiVars
    /\ UserCode
    /\ life[q] # "new"
    /\ is_canceled' = [is_canceled EXCEPT ![q] = TRUE]
    /\ hitPending' = [hitPending EXCEPT ![q] = @ \/ Queued(q)]
    /\ UNCHANGED <<pc, clock, ready, sleeping, tasks, current, deadline, life, kind,
                   delay, n, iter, fuel, phase, sleepAt, sleepDur, sleepOrder, ahead,
                   calls, lastCall, minGap, cancelError, blocked>>

\* Scheduler.cancel(coro): self.tasks[coro].cancel(); the lookup raises KeyError
\* for a coroutine that has no registry entry.  Raised inside a task, the
\* KeyError leaves the task's body (a body that catches it goes on as one that
\* made no call, which the other actions cover); raised outside run it reaches
\* the caller.
SchedCancel(q) ==
    /\ UNCHANGED uiVars
    /\ UserCode
    /\ life[q] # "new"
    /\ IF q \in tasks
       THEN /\ is_canceled' = [is_canceled EXCEPT ![q] = TRUE]
            /\ hitPending' = [hitPending EXCEPT ![q] = @ \/ Queued(q)]
            /\ UNCHANGED <<pc, life, cancelError>>
       ELSE /\ cancelError' = TRUE
            /\ pc' = IF pc = "running" THEN "aborted" ELSE pc
            /\ life' = IF pc = "running" THEN [life EXCEPT ![current] = "failed"] ELSE life
            /\ UNCHANGED <<is_canceled, hitPending>>
    /\ UNCHANGED <<clock, ready, sleeping, tasks, current, deadline, kind,
                   delay, n, iter, fuel, phase, sleepAt, sleepDur, sleepOrder, ahead,
                   calls, lastCall, minGap, blocked>>

\* ------------------------------------------------------------------ the loop
Remove(s, c) == SelectSeq(s, LAMBDA x : x # c)

\* The elements of s in front of c.
Before(s, c) == {s[i] : i \in {j \in 1..Len(s) : \A k \in 1..j : s[k] # c}}

\* run, line 63: `while ready or sleeping` is false, run returns.
Drain ==
    /\ UNCHANGED uiVars
    /\ pc = "loop"
    /\ ready = <<>> /\ sleeping = <<>>
    /\ pc' = "drained"
    /\ UNCHANGED <<clock, ready, sleeping, tasks, current, is_canceled, deadline, life,
                   kind, delay, n, iter, fuel, phase, histVars>>

\* ready.pop() in place of ready.popleft().
PopReadyRight(rdy) == [item |-> rdy[Len(rdy)], rest |-> SubSeq(rdy, 1, Len(rdy) - 1)]

\* run, line 70: self.current = ready.popleft()
PopReady(rdy) == [item |-> Head(rdy), rest |-> Tail(rdy)]

\* The loop does not wait for the deadline.
BlockForNothing(c, now) == 0

\* run, line 73: the argument of time.sleep
BlockFor(c, now) == deadline[c] - now

\* The canceled flag is not looked at.
DiscardsNothing(c) == FALSE

\* The registry entry is left in place.
UnregisterNothing(reg, c) == reg

\* run, line 75: del tasks[self.current.coro]
Unregister(reg, c) == reg \ {c}

\* run, line 77: if self.current.is_canceled: continue
Discards(c) == is_canceled[c]

\* run, lines 64-78: one iteration up to coro.send(None).
Iterate ==
    /\ UNCHANGED uiVars
    /\ pc = "loop"
    /\ ready # <<>> \/ sleeping # <<>>
    /\ LET now      == clock
           m        == MoveExpired(ready, sleeping, now, deadline)
           viaReady == m.ready # <<>>
           cur      == IF viaReady THEN PopReady(m.ready).item
                       ELSE heappopItem(m.sleeping)
           rdy      == IF viaReady THEN PopReady(m.ready).rest ELSE m.ready
           slp      == IF viaReady THEN m.sleeping
                       ELSE heappopRest(m.sleeping, deadline)
           moved    == Range(m.ready) \ Range(ready)
       IN /\ ready' = rdy
          /\ sleeping' = slp
          /\ current' = cur
          /\ clock' = IF viaReady THEN clock ELSE clock + BlockFor(cur, now)
          /\ blocked' = ~viaReady
          /\ ahead' = [c \in Coros |->
                         (IF c \in moved THEN Before(m.ready, c) ELSE ahead[c]) \ {cur}]
          /\ IF cur \notin tasks
             THEN \* del tasks[...] raises KeyError, which leaves run; for
                  \* the ScreenManager's bare coroutine, which has no .coro,
                  \* evaluating self.current.coro raises AttributeError
                  /\ pc' = "aborted"
                  /\ UNCHANGED <<tasks, life, phase, sleepAt, sleepDur, sleepOrder>>
             ELSE /\ tasks' = Unregister(tasks, cur)
                  /\ IF Discards(cur)
                     THEN /\ pc' = "loop"
                          /\ life' = [life EXCEPT ![cur] = "dropped"]
                          /\ sleepAt' = [sleepAt EXCEPT ![cur] = None]
                          /\ sleepDur' = [sleepDur EXCEPT ![cur] = None]
                          /\ sleepOrder' = Remove(sleepOrder, cur)
                          /\ UNCHANGED phase
                     ELSE /\ pc' = "running"
                          /\ phase' = "resumed"
                          /\ UNCHANGED <<life, sleepAt, sleepDur, sleepOrder>>
    /\ UNCHANGED <<is_canceled, deadline, kind, delay, n, iter, fuel, calls, lastCall,
                   minGap, hitPending, cancelError>>

\* Scheduler.sleep(d), called by the running task c, and the rest of the
\* iteration: self.current is None, so the task is not appended to ready.
SleepCall(c, d) ==
    /\ clock + d <= MaxClock
    /\ deadline' = [deadline EXCEPT ![c] = clock + d]
    /\ sleeping' = heappush(sleeping, c, deadline')
    /\ tasks' = tasks \cup {c}
    /\ current' = NoTask
    /\ pc' = "loop"
    /\ sleepAt' = [sleepAt EXCEPT ![c] = clock]
    /\ sleepDur' = [sleepDur EXCEPT ![c] = d]
    /\ sleepOrder' = Append(Remove(sleepOrder, c), c)
    /\ UNCHANGED <<ready, ahead>>

\* The task that yielded goes to the front of ready.
ReappendFront(rdy, c) == <<c>> \o rdy

\* await next_task(): the send returns with self.current still set, and run,
\* lines 85-87, appends the task to ready and registers it again.
Reappend(rdy, c) == Append(rdy, c)

YieldOnce(c) ==
    /\ ready' = Reappend(ready, c)
    /\ tasks' = tasks \cup {c}
    /\ pc' = "loop"
    /\ ahead' = [ahead EXCEPT ![c] = Range(ready)]
    /\ sleepAt' = [sleepAt EXCEPT ![c] = None]
    /\ sleepDur' = [sleepDur EXCEPT ![c] = None]
    /\ sleepOrder' = Remove(sleepOrder, c)
    /\ UNCHANGED <<sleeping, deadline, current>>

\* The coroutine returns: send raises StopIteration, run continues (lines 82-83).
Returned(c) ==
    /\ pc' = "loop"
    /\ life' = [life EXCEPT ![c] = "done"]
    /\ sleepAt' = [sleepAt EXCEPT ![c] = None]
    /\ sleepDur' = [sleepDur EXCEPT ![c] = None]
    /\ sleepOrder' = Remove(sleepOrder, c)
    /\ UNCHANGED <<ready, sleeping, tasks, current, deadline, ahead>>

\* `except Exception: continue`: the loop goes on after a failed task.
AfterErrorGoesOn == "loop"

\* run, lines 80-83: where run is after the send raised something other than
\* StopIteration: nothing catches it.
AfterError == "aborted"

Raised(c) ==
    /\ pc' = AfterError
    /\ life' = [life EXCEPT ![c] = "failed"]
    /\ UNCHANGED <<ready, sleeping, tasks, current, deadline, ahead, sleepAt, sleepDur,
                   sleepOrder>>

\* ------------------------------------------------------------------ hand-written coroutines
CoYield ==
    /\ UNCHANGED uiVars
    /\ pc = "running" /\ kind[current] = "coro" /\ fuel[current] > 0
    /\ YieldOnce(current)
    /\ fuel' = [fuel EXCEPT ![current] = @ - 1]
    /\ UNCHANGED <<clock, is_canceled, life, kind, delay, n, iter, phase, calls,
                   lastCall, minGap, hitPending, cancelError, blocked>>

CoSleep(d) ==
    /\ UNCHANGED uiVars
    /\ pc = "running" /\ kind[current] = "coro" /\ fuel[current] > 0
    /\ SleepCall(current, d)
    /\ fuel' = [fuel EXCEPT ![current] = @ - 1]
    /\ UNCHANGED <<clock, is_canceled, life, kind, delay, n, iter, phase, calls,
                   lastCall, minGap, hitPending, cancelError, blocked>>

CoReturn ==
    /\ UNCHANGED uiVars
    /\ pc = "running" /\ kind[current] = "coro"
    /\ Returned(current)
    /\ UNCHANGED <<clock, is_canceled, kind, delay, n, iter, fuel, phase, calls,
                   lastCall, minGap, hitPending, cancelError, blocked>>

CoRaise ==
    /\ UNCHANGED uiVars
    /\ pc = "running" /\ kind[current] = "coro"
    /\ Raised(current)
    /\ UNCHANGED <<clock, is_canceled, kind, delay, n, iter, fuel, phase, calls,
                   lastCall, minGap, hitPending, cancelError, blocked>>

\* ------------------------------------------------------------------ schedule's wrapper
\* range(n + 1) in place of range(n).
LoopsAgainOnceMore(c) == n[c] = 0 \/ iter[c] <= n[c]

\* `for _ in range(n)` if n else `while True`: the loop goes round once more.
LoopsAgain(c) == n[c] = 0 \/ iter[c] < n[c]

\* callable(*args, **kwargs) is called.
PerInvoke ==
    /\ UNCHANGED uiVars
    /\ pc = "running" /\ kind[current] = "periodic" /\ phase = "resumed"
    /\ LoopsAgain(current)
    /\ phase' = "invoked"
    /\ iter' = [iter EXCEPT ![current] = IF n[current] = 0 THEN @ ELSE @ + 1]
    /\ calls' = [calls EXCEPT ![current] = IF n[current] = 0 THEN @ ELSE @ + 1]
    /\ lastCall' = [lastCall EXCEPT ![current] = IF delay[current] > 0 THEN clock ELSE @]
    /\ minGap' = [minGap EXCEPT ![current] =
                     IF lastCall[current] = None THEN @
                     ELSE IF @ = None \/ clock - lastCall[current] < @
                          THEN clock - lastCall[current] ELSE @]
    /\ sleepAt' = [sleepAt EXCEPT ![current] = None]
    /\ sleepDur' = [sleepDur EXCEPT ![current] = None]
    /\ sleepOrder' = Remove(sleepOrder, current)
    /\ UNCHANGED <<pc, clock, ready, sleeping, tasks, current, is_canceled, deadline,
                   life, kind, delay, n, fuel, ahead, hitPending, cancelError, blocked>>

\* await self.sleep(delay) if delay > 0 else await next_task()
PerAwait ==
    /\ UNCHANGED uiVars
    /\ pc = "running" /\ kind[current] = "periodic" /\ phase = "invoked"
    /\ IF delay[current] > 0
       THEN SleepCall(current, delay[current])
       ELSE YieldOnce(current)
    /\ phase' = "resumed"
    /\ UNCHANGED <<clock, is_canceled, life, kind, delay, n, iter, fuel, calls,
                   lastCall, minGap, hitPending, cancelError, blocked>>

\* The loop is exhausted: the wrapper returns.
PerReturn ==
    /\ UNCHANGED uiVars
    /\ pc = "running" /\ kind[current] = "periodic" /\ phase = "resumed"
    /\ ~LoopsAgain(current)
    /\ Returned(current)
    /\ UNCHANGED <<clock, is_canceled, kind, delay, n, iter, fuel, phase, calls,
                   lastCall, minGap, hitPending, cancelError, blocked>>

\* The callable raises.
PerRaise ==
    /\ UNCHANGED uiVars
    /\ pc = "running" /\ kind[current] = "periodic" /\ phase = "invoked"
    /\ Raised(current)
    /\ UNCHANGED <<clock, is_canceled, kind, delay, n, iter, fuel, phase, calls,
                   lastCall, minGap, hitPending, cancelError, blocked>>

\* ------------------------------------------------------------------ ScreenManager's input poll
\* The coroutine object that ScreenManager.__init__ makes by calling getch().
GetchCoro == 1

\* screen_manager.py, line 54: self.ready.append(getch()).  The coroutine
\* object itself goes into ready: no Task is made for it and nothing is
\* written to self.tasks.
AtConstruction(rdy) == Append(rdy, GetchCoro)

\* The scheduler of a ScreenManager after construction: Scheduler.__init__,
\* then line 54.
ScreenInit ==
    /\ pc = "idle"
    /\ clock = 0
    /\ ready = AtConstruction(<<>>)
    /\ sleeping = <<>>
    /\ tasks = {}
    /\ current = NoTask
    /\ is_canceled = [c \in Coros |-> FALSE]
    /\ deadline = [c \in Coros |-> None]
    /\ life = [c \in Coros |-> IF c = GetchCoro THEN "live" ELSE "new"]
    /\ kind = [c \in Coros |-> IF c = GetchCoro THEN "getch" ELSE "none"]
    /\ delay = [c \in Coros |-> 0]
    /\ n = [c \in Coros |-> 0]
    /\ iter = [c \in Coros |-> 0]
    /\ fuel = [c \in Coros |-> 0]
    /\ phase = "resumed"
    /\ sleepAt = [c \in Coros |-> None]
    /\ sleepDur = [c \in Coros |-> None]
    /\ sleepOrder = <<>>
    /\ ahead = [c \in Coros |-> {}]
    /\ calls = [c \in Coros |-> 0]
    /\ lastCall = [c \in Coros |-> None]
    /\ hitPending = [c \in Coros |-> FALSE]
    /\ cancelError = FALSE
    /\ minGap = [c \in Coros |-> None]
    /\ blocked = FALSE

\* screen.getch() with nodelay(True) returns -1 when no key was typed.
NoKey == -1

\* screen_manager.py, line 10: EXIT = ord('q')
EXIT == 113

\* A key that is not the exit key ('a').
OtherKey == 97

KeyCodes == {EXIT, OtherKey}

\* No key has been typed.
KeyInit == pending = NoKey

\* The user types a key before run is called or while the loop runs; the
\* screen holds it until screen.getch() is called.
KeyPress(k) ==
    /\ pc \in {"idle", "loop"}
    /\ pending' = k
    /\ UNCHANGED exceptKey

\* ------------------------------------------------------------------ widget attributes
\* A hint component: None, an absolute integer, or a float (in tenths).
NoHint == <<"none", 0>>
HintValues == {NoHint, <<"float", 5>>, <<"int", -1>>}
Coords == 0..MaxCoord

\* widgets/widget.py, lines 110-124: the class body of Widget.  Each bind_to(attr)
\* is an expression statement on the line before a def; `decorates` says
\* whether the decorator it returns is applied to that function (it would be
\* with an `@` in front).
ClassBody ==
    << [attr |-> "top",    func |-> "_set_pos_hint_y",  decorates |-> FALSE],
       [attr |-> "left",   func |-> "_set_pos_hint_x",  decorates |-> FALSE],
       [attr |-> "height", func |-> "_set_size_hint_y", decorates |-> FALSE],
       [attr |-> "width",  func |-> "_set_size_hint_x", decorates |-> FALSE] >>

\* bind_to, lines 7-15: _attr_to_callbacks[attr] gets func.__name__ when the
\* decorator is called with func.  Observer.__new__, lines 23-48, binds what
\* it finds there.
AttrToCallbacks(attr) ==
    {ClassBody[i].func : i \in {j \in DOMAIN ClassBody :
                                   ClassBody[j].attr = attr /\ ClassBody[j].decorates}}

\* The four callbacks, lines 111-124: the hints they leave.
Callback(func, ph, sh) ==
    CASE func = "_set_pos_hint_y"  -> [pos |-> <<NoHint, ph[2]>>, size |-> sh]
      [] func = "_set_pos_hint_x"  -> [pos |-> <<ph[1], NoHint>>, size |-> sh]
      [] func = "_set_size_hint_y" -> [pos |-> ph, size |-> <<NoHint, sh[2]>>]
      [] func = "_set_size_hint_x" -> [pos |-> ph, size |-> <<sh[1], NoHint>>]

\* The hints after an assignment to attr: every callback bound to attr has run.
AfterCallbacks(attr, ph, sh) ==
    LET fs == AttrToCallbacks(attr)
    IN IF fs = {} THEN [pos |-> ph, size |-> sh]
       ELSE Callback(CHOOSE f \in fs : TRUE, ph, sh)

\* Widget.__init__, lines 86-101, with no arguments.
WidgetInit ==
    /\ top = 0 /\ left = 0
    /\ height = None /\ width = None
    /\ pos_hint = <<NoHint, NoHint>>
    /\ size_hint = <<NoHint, NoHint>>
    /\ lastSet = [attr |-> "none", pos |-> <<NoHint, NoHint>>, size |-> <<NoHint, NoHint>>]

\* widget.<attr> = v
SetAttr(attr, v) ==
    /\ top'    = IF attr = "top"    THEN v ELSE top
    /\ left'   = IF attr = "left"   THEN v ELSE left
    /\ height' = IF attr = "height" THEN v ELSE height
    /\ width'  = IF attr = "width"  THEN v ELSE width
    /\ pos_hint'  = AfterCallbacks(attr, pos_hint, size_hint).pos
    /\ size_hint' = AfterCallbacks(attr, pos_hint, size_hint).size
    /\ lastSet' = [attr |-> attr, pos |-> pos_hint, size |-> size_hint]
    /\ UNCHANGED exceptWidget

SetTop(v) == SetAttr("top", v)

SetLeft(v) == SetAttr("left", v)

SetHeight(v) == SetAttr("height", v)

SetWidth(v) == SetAttr("width", v)

\* widget.pos_hint = (a, b)
SetPosHint(a, b) ==
    /\ pos_hint' = <<a, b>>
    /\ lastSet' = [attr |-> "pos_hint", pos |-> pos_hint, size |-> size_hint]
    /\ UNCHANGED <<top, left, height, width, size_hint, exceptWidget>>

\* widget.size_hint = (a, b)
SetSizeHint(a, b) ==
    /\ size_hint' = <<a, b>>
    /\ lastSet' = [attr |-> "size_hint", pos |-> pos_hint, size |-> size_hint]
    /\ UNCHANGED <<top, left, height, width, pos_hint, exceptWidget>>

\* ------------------------------------------------------------------ convert
\* round(x) of Python for x = num / den, den > 0: the nearest integer, the
\* even one of the two when x lies halfway.  (For the positions and bounds
\* used here the float product pos * bounds rounds as the exact product.)
RoundHalfEven(num, den) ==
    LET f == num \div den
        r == num % den
    IN IF 2 * r > den THEN f + 1
       ELSE IF 2 * r < den THEN f
       ELSE IF f % 2 = 0 THEN f ELSE f + 1

\* convert without the last line's test on a rounded float.
convertRoundOnly(pos, bounds) ==
    IF pos[1] = "float" THEN RoundHalfEven(pos[2] * bounds, 10)
    ELSE IF pos[2] < 0 THEN pos[2] + bounds ELSE pos[2]

\* Widget.convert, lines 266-272.  pos is <<"int", i>> or <<"float", tenths>>.
\*   if isinstance(pos, float): pos = round(pos * bounds)
\*   return pos + bounds if pos < 0 else pos
convert(pos, bounds) ==
    LET p == IF pos[1] = "float" THEN RoundHalfEven(pos[2] * bounds, 10) ELSE pos[2]
    IN IF p < 0 THEN p + bounds ELSE p

\* The positions a caller may give: integers and floats of either sign.
Positions ==
    {<<"int", i>> : i \in -MaxSpec..MaxSpec} \cup {<<"float", t>> : t \in -MaxTenths..MaxTenths}

ConvInit == converted = [called |-> FALSE, pos |-> <<"int", 0>>, bounds |-> 0, result |-> 0]

\* Widget.convert(pos, bounds) is called.
Convert(pos, bounds) ==
    /\ converted' = [called |-> TRUE, pos |-> pos, bounds |-> bounds,
                     result |-> convert(pos, bounds)]
    /\ UNCHANGED exceptConv

\* ------------------------------------------------------------------ the widget tree
\* Widget 0 is the root the ScreenManager makes; the others are made in order.
Root == 0
Widgets == 1..NumWidgets
Nodes == 0..NumWidgets

\* Widget.types, lines 78-84: __init_subclass__ registers every subclass under
\* its name; widgets/layout.py defines Layout.  Widget itself is no subclass.
types == {"Layout"}

\* What create_with may be: None, a registered name, the base class's name,
\* a name nobody registered.
CreateWith == {"None", "Layout", "Widget", "Gauge"}

\* The root widget: it reports has_root and has the size of the screen.
IsRoot(w) == w = Root

\* has_root answering False everywhere.
has_rootNever(par, w) == FALSE

\* Widget.has_root, lines 175-179 (the root answers for itself).
RECURSIVE has_root(_, _)
has_root(par, w) ==
    IF IsRoot(w) THEN TRUE
    ELSE IF par[w] = None THEN FALSE
    ELSE has_root(par, par[w])

\* The widgets below w.
RECURSIVE Descendants(_, _)
Descendants(kids, w) ==
    Range(kids[w]) \cup UNION {Descendants(kids, c) : c \in Range(kids[w])}

NoWindow == <<None, None>>

\* Widget.__init__, lines 86-101.
\*   top, left, height, width, *rest =
\*       args + (None, None) if len(args) == 2 else args or (0, 0, None, None)
NewGeometry(args, ph, sh) ==
    LET a == IF Len(args) = 2 THEN args \o <<None, None>>
             ELSE IF args # <<>> THEN args ELSE <<0, 0, None, None>>
    IN [top |-> a[1], left |-> a[2], height |-> a[3], width |-> a[4],
        pos_hint |-> ph, size_hint |-> sh, window |-> NoWindow]

\* The window of the root has the root's size.
RootGeometry ==
    [top |-> 0, left |-> 0, height |-> RootHeight, width |-> RootWidth,
     pos_hint |-> <<NoHint, NoHint>>, size_hint |-> <<NoHint, NoHint>>,
     window |-> <<RootHeight, RootWidth>>]

\* Bounds taken from the widget itself once it has a size.
BoundsOfSelf(geo, par, w) ==
    IF geo[w].height # None /\ geo[w].width # None
    THEN <<geo[w].height, geo[w].width>>
    ELSE <<geo[par[w]].height, geo[par[w]].width>>

\* update_geometry, line 132: h, w = self.parent.height, self.parent.width
Bounds(geo, par, w) == <<geo[par[w]].height, geo[par[w]].width>>

\* update_geometry, lines 134-161, for one widget with the parent's h and w.
\* The assignments to top, left, height and width run the bound callbacks;
\* lines 142 and 156 then assign the hints read at lines 134 and 144 again.
\* The window is noted by the size it is created with or resized to.
Resolve(g, h, w) ==
    LET t  == IF g.pos_hint[1] # NoHint THEN convert(g.pos_hint[1], h) ELSE g.top
        l  == IF g.pos_hint[2] # NoHint THEN convert(g.pos_hint[2], w) ELSE g.left
        h1 == IF g.size_hint[1] # NoHint THEN convert(g.size_hint[1], h) ELSE g.height
        w1 == IF g.size_hint[2] # NoHint THEN convert(g.size_hint[2], w) ELSE g.width
        h2 == IF h1 = None THEN h ELSE h1
        w2 == IF w1 = None THEN w - 1 ELSE w1
    IN [top |-> t, left |-> l, height |-> h2, width |-> w2,
        pos_hint |-> g.pos_hint, size_hint |-> g.size_hint,
        window |-> <<h2, w2 + 1>>]

\* Widget.update_geometry, lines 126-165: nothing without a root; else the
\* widget, then every child in the order of children.
RECURSIVE update_geometry(_, _, _, _)
RECURSIVE UpdateEach(_, _, _, _)
update_geometry(geo, par, kids, w) ==
    IF ~has_root(par, w) THEN geo
    ELSE LET b == Bounds(geo, par, w)
         IN UpdateEach([geo EXCEPT ![w] = Resolve(geo[w], b[1], b[2])], par, kids, kids[w])

UpdateEach(geo, par, kids, cs) ==
    IF cs = <<>> THEN geo
    ELSE UpdateEach(update_geometry(geo, par, kids, Head(cs)), par, kids, Tail(cs))

\* What a caller constructs a widget with: positional arguments and hints.
Constructions ==
    { [args |-> <<>>,           pos_hint |-> <<NoHint, NoHint>>,
                                size_hint |-> <<NoHint, NoHint>>],
      [args |-> <<1, 1>>,       pos_hint |-> <<NoHint, NoHint>>,
                                size_hint |-> <<<<"float", 5>>, <<"int", -1>>>>],
      [args |-> <<0, 1, 2, 3>>, pos_hint |-> <<<<"float", 5>>, <<"int", -1>>>>,
                                size_hint |-> <<NoHint, NoHint>>] }

\* The plain construction: Widget().
Plain == [args |-> <<>>, pos_hint |-> <<NoHint, NoHint>>, size_hint |-> <<NoHint, NoHint>>]

\* Layout.__init__, widgets/layout.py lines 7-8: size_hint defaults to (1.0, 1.0).
DefaultSizeHint(cls) ==
    IF cls = "Layout" THEN <<<<"float", 10>>, <<"float", 10>>>> ELSE <<NoHint, NoHint>>

NoOp ==
    [op |-> "none", widget |-> Root, name |-> "None", again |-> FALSE, error |-> FALSE,
     parent |-> <<>>, geometry |-> <<>>, children |-> <<>>, group |-> <<>>, made |-> 0]

TreeInit ==
    /\ parent = [w \in Nodes |-> None]
    /\ children = [w \in Nodes |-> <<>>]
    /\ geometry = [w \in Nodes |-> IF IsRoot(w) THEN RootGeometry
                                   ELSE NewGeometry(<<>>, <<NoHint, NoHint>>, <<NoHint, NoHint>>)]
    /\ group = [w \in Nodes |-> <<>>]
    /\ made = 0
    /\ lastOp = NoOp

Made == 1..made

\* What an operation on widget w notes before it runs; the state it starts
\* from is kept where the operation is to leave it as it is.
Note(op, w, name, error) ==
    LET keeps == error \/ op = "update_geometry"
    IN [op |-> op, widget |-> w, name |-> name, error |-> error,
        again |-> lastOp.widget = w /\ ~lastOp.error
                  /\ lastOp.op \in {"update_geometry", "new_widget", "add_widget"},
        parent |-> IF keeps THEN parent ELSE <<>>,
        geometry |-> IF keeps THEN geometry ELSE <<>>,
        children |-> IF keeps THEN children ELSE <<>>,
        group |-> IF keeps THEN group ELSE <<>>,
        made |-> IF keeps THEN made ELSE 0]

\* Widget(*args, pos_hint=..., size_hint=...): a widget with no parent.
Construct(limit, c) ==
    /\ made < limit
    /\ made' = made + 1
    /\ geometry' = [geometry EXCEPT ![made + 1] = NewGeometry(c.args, c.pos_hint, c.size_hint)]
    /\ lastOp' = Note("construct", made + 1, "None", FALSE)
    /\ UNCHANGED <<parent, children, group, exceptTree>>

\* Widget.types[create_with] of a dict with the keys registered.
LookupOrWidget(name) == TRUE

\* new_widget, lines 233-236: does the look-up of create_with give a class?
\* None stands for Widget; a str is looked up in Widget.types (KeyError).
Lookup(name) == name = "None" \/ name \in types

\* Widget.add_widget, lines 223-226, on the tree (par, kids, geo).
add_widget(par, kids, geo, p, w) ==
    LET kids1 == [kids EXCEPT ![p] = Append(@, w)]
        par1  == [par EXCEPT ![w] = p]
    IN [parent |-> par1, children |-> kids1,
        geometry |-> update_geometry(geo, par1, kids1, w)]

\* p.new_widget(*args, group=grp, create_with=name, **hints), lines 228-244.
NewWidget(limit, p, c, name, grp) ==
    /\ made < limit
    /\ p \in Made \cup {Root}
    /\ IF ~Lookup(name)
       THEN /\ lastOp' = Note("new_widget", p, name, TRUE)
            /\ UNCHANGED <<parent, children, geometry, group, made>>
       ELSE LET w == made + 1
                sh == IF c.size_hint = <<NoHint, NoHint>> THEN DefaultSizeHint(name)
                      ELSE c.size_hint
                g0 == [geometry EXCEPT ![w] = NewGeometry(c.args, c.pos_hint, sh)]
                t == add_widget([parent EXCEPT ![w] = p], children, g0, p, w)
            IN /\ made' = w
               /\ parent' = t.parent
               /\ children' = t.children
               /\ geometry' = t.geometry
               /\ group' = IF grp THEN [group EXCEPT ![p] = Append(@, w)] ELSE group
               /\ lastOp' = Note("new_widget", w, name, FALSE)
    /\ UNCHANGED exceptTree

\* p.add_widget(w) for a widget w that has no parent yet and does not hold p.
AddWidget(p, w) ==
    /\ w \in Made /\ parent[w] = None
    /\ p \in (Made \cup {Root}) \ ({w} \cup Descendants(children, w))
    /\ LET t == add_widget(parent, children, geometry, p, w)
       IN /\ parent' = t.parent
          /\ children' = t.children
          /\ geometry' = t.geometry
    /\ lastOp' = Note("add_widget", w, "None", FALSE)
    /\ UNCHANGED <<group, made, exceptTree>>

\* w.update_geometry()
UpdateGeometry(w) ==
    /\ w \in Made
    /\ geometry' = update_geometry(geometry, parent, children, w)
    /\ lastOp' = Note("update_geometry", w, "None", FALSE)
    /\ UNCHANGED <<parent, children, group, made, exceptTree>>

\* w.pos_hint = ph; w.size_hint = sh
AssignHints(w, ph, sh) ==
    /\ w \in Made
    /\ geometry' = [geometry EXCEPT ![w].pos_hint = ph, ![w].size_hint = sh]
    /\ lastOp' = Note("assign", w, "None", FALSE)
    /\ UNCHANGED <<parent, children, group, made, exceptTree>>

\* ------------------------------------------------------------------ dispatch
\* A key is told by the widgets whose on_press returns True for it; the
\* on_press of Widget itself, lines 279-287, returns None.
Keys == SUBSET Widgets

\* the children in the order of the list
NotReversed(s) == s

\* reversed(self.children)
Reversed(s) == [i \in 1..Len(s) |-> s[Len(s) + 1 - i]]

\* Widget.dispatch, lines 274-277, from position i of the reversed children on;
\* pressed collects the on_press calls.
\*   for widget in reversed(self.children):
\*       if widget.on_press(key) or widget.dispatch(key):
\*           return True
RECURSIVE dispatch(_, _, _, _)
RECURSIVE DispatchFrom(_, _, _, _, _)
dispatch(kids, w, key, pressed) == DispatchFrom(kids, Reversed(kids[w]), 1, key, pressed)

DispatchFrom(kids, rev, i, key, pressed) ==
    IF i > Len(rev) THEN [returned |-> "None", pressed |-> pressed]
    ELSE LET c == rev[i]
             p1 == Append(pressed, c)
         IN IF c \in key THEN [returned |-> "True", pressed |-> p1]
            ELSE LET below == dispatch(kids, c, key, p1)
                 IN IF below.returned = "True" THEN below
                    ELSE DispatchFrom(kids, rev, i + 1, key, below.pressed)

\* ScreenManager.dispatch, screen_manager.py lines 56-59, over self.widgets:
\*   for widget in reversed(self.widgets):
\*       if widget.on_press(key): break
\* The function has no return statement.
RECURSIVE ScreenDispatchFrom(_, _, _, _)
ScreenDispatchFrom(rev, i, key, pressed) ==
    IF i > Len(rev) THEN [returned |-> "None", pressed |-> pressed]
    ELSE IF rev[i] \in key THEN [returned |-> "None", pressed |-> Append(pressed, rev[i])]
    ELSE ScreenDispatchFrom(rev, i + 1, key, Append(pressed, rev[i]))

PressInit == press = [on |-> Root, key |-> {}, pressed |-> <<>>, returned |-> "None"]

\* w.dispatch(key)
Dispatch(w, key) ==
    /\ w \in Made \cup {Root}
    /\ key \subseteq Made
    /\ LET r == dispatch(children, w, key, <<>>)
       IN press' = [on |-> w, key |-> key, pressed |-> r.pressed, returned |-> r.returned]
    /\ lastOp' = Note("dispatch", w, "None", FALSE)
    /\ UNCHANGED <<parent, children, geometry, group, made, exceptPress>>

\* ScreenManager.dispatch(key); self.widgets are the widgets on the screen,
\* the children of the root.
ScreenDispatch(key) ==
    /\ key \subseteq Made
    /\ LET r == ScreenDispatchFrom(Reversed(children[Root]), 1, key, <<>>)
       IN press' = [on |-> Root, key |-> key, pressed |-> r.pressed, returned |-> r.returned]
    /\ lastOp' = Note("screen_dispatch", Root, "None", FALSE)
    /\ UNCHANGED <<parent, children, geometry, group, made, exceptPress>>

\* ------------------------------------------------------------------ z-order
\* The argument of a z-order call: a widget, or an index into the list.
Indices == (0 - NumWidgets - 1)..NumWidgets
StackArgs == {<<"widget", w>> : w \in Widgets} \cup {<<"int", i>> : i \in Indices}

\* Where Python's list looks for index i: negative indices count from the end.
\* (Positions of a sequence are numbered from 1 here.)
ListIndex(s, i) == IF i < 0 THEN i + Len(s) + 1 ELSE i + 1

\* list.pop(i) raises IndexError.
PopFails(s, i) == ListIndex(s, i) \notin 1..Len(s)

\* The list after list.pop(i).
PopAt(s, i) ==
    LET k == ListIndex(s, i) IN SubSeq(s, 1, k - 1) \o SubSeq(s, k + 1, Len(s))

\* list.remove(x) leaves the list as it is.
removeNothing(s, x) == s

\* The list after list.remove(x): the first element equal to x is taken out
\* (widgets define no __eq__: equal is identical).
remove(s, x) ==
    LET k == CHOOSE i \in 1..Len(s) : s[i] = x /\ \A j \in 1..(i - 1) : s[j] # x
    IN SubSeq(s, 1, k - 1) \o SubSeq(s, k + 1, Len(s))

\* Widget.pull_to_front, lines 203-211, on the list widgets.
pull_to_front(widgets, arg) ==
    IF arg[1] = "int"
    THEN IF PopFails(widgets, arg[2])
         THEN [error |-> "IndexError", widgets |-> widgets]
         ELSE [error |-> "none",
               widgets |-> Append(PopAt(widgets, arg[2]), widgets[ListIndex(widgets, arg[2])])]
    ELSE IF arg[2] \notin Range(widgets)
         THEN [error |-> "ValueError", widgets |-> widgets]
         ELSE [error |-> "none", widgets |-> Append(remove(widgets, arg[2]), arg[2])]

\* Widget.push_to_back, lines 213-221.
push_to_back(widgets, arg) ==
    IF arg[1] = "int"
    THEN IF PopFails(widgets, arg[2])
         THEN [error |-> "IndexError", widgets |-> widgets]
         ELSE [error |-> "none",
               widgets |-> <<widgets[ListIndex(widgets, arg[2])]>> \o PopAt(widgets, arg[2])]
    ELSE IF arg[2] \notin Range(widgets)
         THEN [error |-> "ValueError", widgets |-> widgets]
         ELSE [error |-> "none", widgets |-> <<arg[2]>> \o remove(widgets, arg[2])]

\* ScreenManager.top, lines 101-108, on self.widgets.
screen_top(widgets, arg) ==
    IF arg[1] = "int"
    THEN IF PopFails(widgets, arg[2])
         THEN [error |-> "IndexError", widgets |-> widgets]
         ELSE [error |-> "none",
               widgets |-> Append(PopAt(widgets, arg[2]), widgets[ListIndex(widgets, arg[2])])]
    ELSE IF arg[2] \notin Range(widgets)
         THEN [error |-> "ValueError", widgets |-> widgets]
         ELSE [error |-> "none", widgets |-> Append(remove(widgets, arg[2]), arg[2])]

\* ScreenManager.bottom, lines 110-117.
screen_bottom(widgets, arg) ==
    IF arg[1] = "int"
    THEN IF PopFails(widgets, arg[2])
         THEN [error |-> "IndexError", widgets |-> widgets]
         ELSE [error |-> "none",
               widgets |-> <<widgets[ListIndex(widgets, arg[2])]>> \o PopAt(widgets, arg[2])]
    ELSE IF arg[2] \notin Range(widgets)
         THEN [error |-> "ValueError", widgets |-> widgets]
         ELSE [error |-> "none", widgets |-> <<arg[2]>> \o remove(widgets, arg[2])]

StackInit ==
    restacked = [op |-> "none", on |-> Root, arg |-> <<"int", 0>>, before |-> <<>>,
                 error |-> "none"]

\* A z-order call on the children of p that gives the result r.
Restack(op, p, arg, r) ==
    /\ children' = [children EXCEPT ![p] = r.widgets]
    /\ restacked' = [op |-> op, on |-> p, arg |-> arg, before |-> children[p],
                     error |-> r.error]
    /\ lastOp' = Note(op, p, "None", r.error # "none")
    /\ UNCHANGED <<parent, geometry, group, made, exceptStack>>

\* p.pull_to_front(arg)
PullToFront(p, arg) ==
    /\ p \in Made \cup {Root}
    /\ Restack("pull_to_front", p, arg, pull_to_front(children[p], arg))

\* p.push_to_back(arg)
PushToBack(p, arg) ==
    /\ p \in Made \cup {Root}
    /\ Restack("push_to_back", p, arg, push_to_back(children[p], arg))

\* ScreenManager.top(arg); self.widgets are the children of the root.
Top(arg) ==
    /\ arg \in StackArgs
    /\ Restack("top", Root, arg, screen_top(children[Root], arg))

\* ScreenManager.bottom(arg)
Bottom(arg) ==
    /\ arg \in StackArgs
    /\ Restack("bottom", Root, arg, screen_bottom(children[Root], arg))

\* ------------------------------------------------------------------ bouncing
\* A complex number is a pair <<real, imag>>; pos is <<row, column>>.
\* z.conjugate()
Conjugate(z) == <<z[1], 0 - z[2]>>

\* -z
Negated(z) == <<0 - z[1], 0 - z[2]>>

\* Bouncing, lines 5-6: vel = 1 + 1j, pos = 0j; the widget is not placed in
\* a parent yet.
BounceInit ==
    bouncer = [placed |-> FALSE, pos |-> <<0, 0>>, vel |-> <<1, 1>>, top |-> 0, left |-> 0,
               height |-> 1, width |-> 1, parent |-> <<MinArena, MinArena>>,
               has_border |-> FALSE]

\* _bounce, line 16: offset = int(bool(getattr(self.parent, "has_border", None)))
Offset(b) == IF b.has_border THEN 1 ELSE 0

\* _bounce, lines 18 and 22: `offset <= x <= parent.size - offset - size`
Within(x, offset, outer, size) == offset <= x /\ x <= outer - offset - size

\* The widget is made with its top-left corner at `at`, a velocity with unit
\* components and pos set to where it is, in a parent that holds it.
Place(ph, pw, h, w, border, at, v) ==
    /\ ~bouncer.placed
    /\ Within(at[1], IF border THEN 1 ELSE 0, ph, h)
    /\ Within(at[2], IF border THEN 1 ELSE 0, pw, w)
    /\ bouncer' = [placed |-> TRUE, pos |-> at, vel |-> v, top |-> at[1], left |-> at[2],
                   height |-> h, width |-> w, parent |-> <<ph, pw>>, has_border |-> border]
    /\ UNCHANGED exceptBounce

\* Bouncing._bounce, lines 13-27, on the widget b.
bounce(b) ==
    LET pos1   == <<b.pos[1] + b.vel[1], b.pos[2] + b.vel[2]>>
        offset == Offset(b)
        rowOut == ~Within(pos1[1], offset, b.parent[1], b.height)
        vel2   == IF rowOut THEN Negated(Conjugate(b.vel)) ELSE b.vel
        pos2   == IF rowOut THEN <<pos1[1] + 2 * vel2[1], pos1[2]>> ELSE pos1
        colOut == ~Within(pos2[2], offset, b.parent[2], b.width)
        vel3   == IF colOut THEN Conjugate(vel2) ELSE vel2
        pos3   == IF colOut THEN <<pos2[1], pos2[2] + 2 * vel3[2]>> ELSE pos2
    IN [b EXCEPT !.pos = pos3, !.vel = vel3,
                 !.top = RoundHalfEven(pos3[1], 1), !.left = RoundHalfEven(pos3[2], 1)]

\* The scheduler calls self._bounce().
Bounce ==
    /\ bouncer.placed
    /\ bouncer' = bounce(bouncer)
    /\ UNCHANGED exceptBounce

\* ------------------------------------------------------------------ refresh
\* The curses module is ncurses where Python ships it and PDCurses with
\* windows-curses (screen_manager.py line 62).  Both take the rectangle
\* dminrow..dmaxrow, dmincol..dmaxcol of the destination with both ends
\* included, and differ on a rectangle the source does not hold.
Backends == {"ncurses", "pdcurses"}

\* What a read beyond the rows or columns of a window gives in ncurses: the
\* process dies, or the copy goes on with what lies there.
BeyondWindow == {"fault", "garbage"}

Min(a, b) == IF a < b THEN a ELSE b
Max(a, b) == IF a > b THEN a ELSE b

\* The cells of a window of the given size that nothing was drawn on by its
\* owner's children, named by where they are.
ParentCell(r, c) == <<"parent", r, c>>

\* The cells of the child's window; the child has drawn on those of its width,
\* and left every second one blank.
ChildCell(r, c) == <<"child", r, c>>
IsBlank(r, c) == (r + c) % 2 = 1

\* What is copied for a cell outside the source window.
Garbage(r, c) == <<"beyond", r, c>>

\* copywin of ncurses (called by window.overwrite and window.overlay with
\* arguments): ERR for an empty rectangle, for a rectangle that ends more
\* than one row or column beyond the source, or beyond the destination;
\* else every cell of the rectangle is copied.  The result holds the pairs
\* <<destination cell, source cell>>.
CopyNcurses(srcH, srcW, dstH, dstW, sminrow, smincol, dminrow, dmincol, dmaxrow, dmaxcol) ==
    IF dmaxrow < dminrow \/ dmaxcol < dmincol
       \/ sminrow + dmaxrow - dminrow > srcH \/ smincol + dmaxcol - dmincol > srcW
       \/ dmaxrow > dstH - 1 \/ dmaxcol > dstW - 1
    THEN [err |-> TRUE, copies |-> {}]
    ELSE [err |-> FALSE,
          copies |-> {<<<<dy, dx>>, <<sminrow + dy - dminrow, smincol + dx - dmincol>>>> :
                         dy \in dminrow..dmaxrow, dx \in dmincol..dmaxcol}]

\* copywin of PDCurses: ERR for a rectangle beyond the destination; else as
\* many rows and columns as both the rectangle and the source hold.
CopyPdcurses(srcH, srcW, dstH, dstW, sminrow, smincol, dminrow, dmincol, dmaxrow, dmaxcol) ==
    IF dmaxrow >= dstH \/ dmaxcol >= dstW \/ dminrow < 0 \/ dmincol < 0
    THEN [err |-> TRUE, copies |-> {}]
    ELSE LET rows == Min(srcH - sminrow, dmaxrow - dminrow + 1)
             cols == Min(srcW - smincol, dmaxcol - dmincol + 1)
         IN [err |-> FALSE,
             copies |-> {<<<<dminrow + i, dmincol + j>>, <<sminrow + i, smincol + j>>>> :
                            i \in 0..(rows - 1), j \in 0..(cols - 1)}]

copywin(backend, srcH, srcW, dstH, dstW, a) ==
    IF backend = "ncurses"
    THEN CopyNcurses(srcH, srcW, dstH, dstW, a[1], a[2], a[3], a[4], a[5], a[6])
    ELSE CopyPdcurses(srcH, srcW, dstH, dstW, a[1], a[2], a[3], a[4], a[5], a[6])

\* Widget.refresh, lines 255-262: the arguments of the copy for a child at
\* (y, x) of the given height and width on a parent of height h and width w.
\*   src_t, des_t = (-y, 0) if y < 0 else (0, y)
\*   src_l, des_l = (-x, 0) if x < 0 else (0, x)
\*   des_h = min(h - 1, des_t + widget.height)
\*   des_w = min(w - 1, des_l + widget.width - 1)
WidgetExtents(h, w, y, x, hgt, wth) ==
    LET src_t == IF y < 0 THEN -y ELSE 0
        des_t == IF y < 0 THEN 0 ELSE y
        src_l == IF x < 0 THEN -x ELSE 0
        des_l == IF x < 0 THEN 0 ELSE x
    IN <<src_t, src_l, des_t, des_l, Min(h - 1, des_t + hgt), Min(w - 1, des_l + wth - 1)>>

\* ScreenManager.refresh, screen_manager.py lines 68-75.
ScreenExtents(h, w, y, x, hgt, wth) ==
    LET src_t == Max(0, -y)
        src_l == Max(0, -x)
        des_t == Max(0, y)
        des_l == Max(0, x)
    IN <<src_t, src_l, des_t, des_l, Min(h - 1, des_t + hgt), Min(w - 1, des_l + wth)>>

\* The destination after the copy: overwrite takes every source cell, overlay
\* (Widget.overlay, lines 246-248, for a transparent widget) the ones that are
\* not blank.
Blit(cells, copies, srcH, srcW, transparent) ==
    [d \in DOMAIN cells |->
        IF \E cp \in copies : cp[1] = d
        THEN LET src == (CHOOSE cp \in copies : cp[1] = d)[2]
             IN IF src[1] >= srcH \/ src[2] >= srcW THEN Garbage(src[1], src[2])
                ELSE IF transparent /\ IsBlank(src[1], src[2]) THEN cells[d]
                ELSE ChildCell(src[1], src[2])
        ELSE cells[d]]

NotDrawn ==
    [by |-> "none", backend |-> "none", parent |-> <<0, 0>>,
     child |-> [top |-> 0, left |-> 0, height |-> 0, width |-> 0, transparent |-> FALSE],
     args |-> <<>>, outcome |-> "none", copies |-> {}, cells |-> <<>>]

DrawInit == drawn = NotDrawn

\* One refresh of a destination window of dstH rows and dstW columns that
\* holds one child without children of its own; a is what refresh asks of
\* the child's window, which has the child's height and one column more
\* than its width (update_geometry, line 159).
RefreshOne(by, backend, beyond, h, w, dstH, dstW, child, a, transparent) ==
    LET srcH == child.height
        srcW == child.width + 1
        r == copywin(backend, srcH, srcW, dstH, dstW, a)
        before == [d \in (0..(dstH - 1)) \X (0..(dstW - 1)) |-> ParentCell(d[1], d[2])]
        reads == {cp[2] : cp \in r.copies}
        outside == \E sc \in reads : sc[1] >= srcH \/ sc[2] >= srcW
        outcome == IF r.err THEN "error"
                   ELSE IF outside THEN beyond
                   ELSE "ok"
    IN drawn' = [by |-> by, backend |-> backend, parent |-> <<h, w>>,
                 child |-> child, args |-> a, outcome |-> outcome,
                 copies |-> r.copies,
                 cells |-> IF outcome \in {"error", "fault"} THEN before
                           ELSE Blit(before, r.copies, srcH, srcW, transparent)]

\* The children a refreshed parent may hold.
Children ==
    [top : (-MaxChild)..MaxParent, left : (-MaxChild)..MaxParent,
     height : 1..MaxChild, width : 1..MaxChild, transparent : BOOLEAN]

\* Widget.refresh, lines 250-264, of a parent of height h and width w; its
\* window has w + 1 columns.
Refresh(backend, beyond, h, w, child) ==
    /\ drawn = NotDrawn
    /\ RefreshOne("widget", backend, beyond, h, w, h, w + 1, child,
                  WidgetExtents(h, w, child.top, child.left, child.height, child.width),
                  child.transparent)
    /\ UNCHANGED exceptDraw

\* ScreenManager.refresh, screen_manager.py lines 61-79: h and w are the
\* screen's getmaxyx, and the copy is always overwrite.
ScreenRefresh(backend, beyond, h, w, child) ==
    /\ drawn = NotDrawn
    /\ RefreshOne("screen", backend, beyond, h, w, h, w, child,
                  ScreenExtents(h, w, child.top, child.left, child.height, child.width),
                  FALSE)
    /\ UNCHANGED exceptDraw

\* Widget.bounds of the array widget, nurses/widget.py lines 94-106, on a
\* screen of scr_hgt rows and scr_wth columns.
bounds(scr_hgt, scr_wth, y, x, hgt, wth) ==
    LET scr_t == Max(0, y)
        scr_l == Max(0, x)
        win_t == Max(0, -y)
        win_l == Max(0, -x)
    IN <<scr_t, scr_l, win_t, win_l,
         Min(scr_hgt - scr_t, y + hgt), Min(scr_wth - scr_l - 1, x + wth)>>

\* A cell of a window after window.erase().
Erased(r, c) == <<"erased", r, c>>

\* Widget.refresh of the array widget, nurses/widget.py lines 108-132: nothing
\* for a widget off the screen; else a window of h rows and w + 1 columns at
\* (scr_t, scr_l) is made and erased, takes the cells of buffer[bounds] that
\* are not transparent, and is put on the screen.
ArrayRefresh(scr_hgt, scr_wth, child) ==
    /\ drawn = NotDrawn
    /\ LET b == bounds(scr_hgt, scr_wth, child.top, child.left, child.height, child.width)
           before == [d \in (0..(scr_hgt - 1)) \X (0..(scr_wth - 1)) |-> ParentCell(d[1], d[2])]
           rows == Min(b[5], child.height - b[3])
           cols == Min(b[6], child.width - b[4])
           copies == IF b[5] <= 0 \/ b[6] <= 0 THEN {}
                     ELSE {<<<<b[1] + i, b[2] + j>>, <<b[3] + i, b[4] + j>>>> :
                              i \in 0..(rows - 1), j \in 0..(cols - 1)}
           inWindow(d) == /\ b[5] > 0 /\ b[6] > 0
                          /\ d[1] \in b[1]..(b[1] + b[5] - 1)
                          /\ d[2] \in b[2]..(b[2] + b[6])
       IN drawn' = [by |-> "array", backend |-> "none", parent |-> <<scr_hgt, scr_wth>>,
                    child |-> child, args |-> b, outcome |-> "ok", copies |-> copies,
                    cells |-> [d \in DOMAIN before |->
                                 IF \E cp \in copies : cp[1] = d
                                 THEN LET src == (CHOOSE cp \in copies : cp[1] = d)[2]
                                      IN IF child.transparent /\ IsBlank(src[1], src[2])
                                         THEN Erased(d[1], d[2])
                                         ELSE ChildCell(src[1], src[2])
                                 ELSE IF inWindow(d) THEN Erased(d[1], d[2])
                                 ELSE before[d]]]
    /\ UNCHANGED exceptDraw

\* The parent's window is erased (Layout.refresh, widgets/layout.py line 11;
\* screen.erase(), screen_manager.py line 65) and the scene is set anew.
Erase ==
    /\ drawn # NotDrawn
    /\ drawn' = NotDrawn
    /\ UNCHANGED exceptDraw

\* ------------------------------------------------------------------ specifications
Init == SchedInit /\ WidgetInit /\ ConvInit /\ TreeInit /\ PressInit /\ DrawInit /\ KeyInit /\ StackInit /\ BounceInit

\* The scheduler with hand-written coroutines drawn from P.
CoNext(P) ==
    \/ Tick
    \/ \E c \in P : RunSoon(c)
    \/ \E c \in P \cup {NoTask} : Run(c)
    \/ \E q \in P : TaskCancel(q)
    \/ \E q \in P : SchedCancel(q)
    \/ Drain
    \/ Iterate
    \/ CoYield
    \/ \E d \in 1..MaxDelay : CoSleep(d)
    \/ CoReturn
    \/ CoRaise

\* schedule and the wrappers it builds.
PerNext(P) ==
    \/ \E c \in P, d \in 0..MaxDelay, r \in 0..MaxRepeat : Schedule(c, d, r)
    \/ PerInvoke
    \/ PerAwait
    \/ PerReturn
    \/ PerRaise

Next == CoNext(Coros)

Spec == Init /\ [][Next]_vars

\* Hand-written coroutines and periodic tasks together, NumMixed coroutines.
MixedNext == CoNext(1..NumMixed) \/ PerNext(1..NumMixed)

SpecPeriodic == Init /\ [][MixedNext]_vars

\* Assignments to the geometry attributes and hints of one widget.
WidgetNext ==
    \/ \E v \in Coords : SetTop(v)
    \/ \E v \in Coords : SetLeft(v)
    \/ \E v \in 1..MaxSize : SetHeight(v)
    \/ \E v \in 1..MaxSize : SetWidth(v)
    \/ \E a, b \in HintValues : SetPosHint(a, b)
    \/ \E a, b \in HintValues : SetSizeHint(a, b)

SpecWidget == Init /\ [][WidgetNext]_vars

\* Calls of the pure function convert.
ConvertNext == \E pos \in Positions, b \in 0..MaxBound : Convert(pos, b)

SpecConvert == Init /\ [][ConvertNext]_vars

\* Widgets made with positions, sizes and hints, attached and resolved.
GeometryNext ==
    \/ \E c \in Constructions : Construct(NumSized, c)
    \/ \E p \in Nodes, c \in Constructions, name \in CreateWith, grp \in BOOLEAN :
           NewWidget(NumSized, p, c, name, grp)
    \/ \E p \in Nodes, w \in Widgets : AddWidget(p, w)
    \/ \E w \in Widgets : UpdateGeometry(w)
    \/ \E w \in Widgets, c \in Constructions : AssignHints(w, c.pos_hint, c.size_hint)

SpecGeometry == Init /\ [][GeometryNext]_vars

\* Plain widgets put into trees, and keys dispatched to them.
TreeNext ==
    \/ Construct(NumWidgets, Plain)
    \/ \E p \in Nodes : NewWidget(NumWidgets, p, Plain, "None", FALSE)
    \/ \E p \in Nodes, w \in Widgets : AddWidget(p, w)
    \/ \E w \in Nodes, key \in Keys : Dispatch(w, key)
    \/ \E key \in Keys : ScreenDispatch(key)

SpecTree == Init /\ [][TreeNext]_vars

\* A parent that holds one child is refreshed.
RefreshNext ==
    \/ /\ drawn = NotDrawn
       /\ \E b \in Backends, u \in BeyondWindow, h, w \in MinParent..MaxParent, c \in Children :
              Refresh(b, u, h, w, c)
    \/ /\ drawn = NotDrawn
       /\ \E b \in Backends, u \in BeyondWindow, h, w \in MinParent..MaxParent, c \in Children :
              ScreenRefresh(b, u, h, w, c)
    \/ /\ drawn = NotDrawn
       /\ \E h, w \in MinParent..MaxParent, c \in Children : ArrayRefresh(h, w, c)
    \/ Erase

SpecRefresh == Init /\ [][RefreshNext]_vars

\* The loop and the tasks keep taking steps: run is not suspended from outside.
FairSpec == SpecPeriodic /\ WF_vars(MixedNext)

\* Widgets put under the root and under each other, and the z-order calls.
StackNext ==
    \/ \E p \in Nodes : NewWidget(NumWidgets, p, Plain, "None", FALSE)
    \/ \E p \in Nodes, arg \in StackArgs : PullToFront(p, arg)
    \/ \E p \in Nodes, arg \in StackArgs : PushToBack(p, arg)
    \/ \E arg \in StackArgs : Top(arg)
    \/ \E arg \in StackArgs : Bottom(arg)

SpecStack == Init /\ [][StackNext]_vars

\* A bouncing widget placed in a parent, and its steps.
BounceNext ==
    \/ \E ph, pw \in MinArena..MaxArena, h, w \in 1..MaxBouncer, border \in BOOLEAN,
          at \in (0..MaxArena) \X (0..MaxArena), v \in {-1, 1} \X {-1, 1} :
            Place(ph, pw, h, w, border, at, v)
    \/ Bounce

SpecBounce == Init /\ [][BounceNext]_vars

\* The scheduler with periodic tasks only: schedule before run and from the
\* callables, cancel through the task handles.  The loop and the tasks keep
\* running (weak fairness), as a process that is not stopped does.
TimerNext ==
    \/ Tick
    \/ \E c \in 1..NumMixed, d \in 0..MaxDelay, r \in 0..MaxRepeat : Schedule(c, d, r)
    \/ Run(NoTask)
    \/ \E q \in 1..NumMixed : TaskCancel(q)
    \/ Drain
    \/ Iterate
    \/ PerInvoke
    \/ PerAwait
    \/ PerReturn
    \/ PerRaise

FairTimers == Init /\ [][TimerNext]_vars /\ WF_vars(TimerNext)

\* The scheduler of a ScreenManager: the caller schedules and cancels its own
\* tasks and calls run.  The first iteration pops the input poll, which ends
\* run, so no task's body and no drained loop is met.
ScreenNext ==
    \/ Tick
    \/ \E c \in Coros \ {GetchCoro} : RunSoon(c)
    \/ \E c \in Coros \ {GetchCoro}, d \in 0..MaxDelay, r \in 0..MaxRepeat : Schedule(c, d, r)
    \/ \E c \in (Coros \ {GetchCoro}) \cup {NoTask} : Run(c)
    \/ \E q \in Coros \ {GetchCoro} : TaskCancel(q)
    \/ \E q \in Coros \ {GetchCoro} : SchedCancel(q)
    \/ \E k \in KeyCodes : KeyPress(k)
    \/ Iterate

\* A ScreenManager after construction, with nothing done to its widgets yet.
ScreenManagerInit ==
    ScreenInit /\ WidgetInit /\ ConvInit /\ TreeInit /\ PressInit /\ DrawInit /\ KeyInit /\ StackInit /\ BounceInit

SpecScreen == ScreenManagerInit /\ [][ScreenNext]_vars

\* ------------------------------------------------------------------ claims
\* p made its pending sleep call before q made its own.
SleptBefore(p, q) ==
    \E i, j \in 1..Len(sleepOrder) : i < j /\ sleepOrder[i] = p /\ sleepOrder[j] = q

\* The running task has just been woken from a sleep.
Woken == pc = "running" /\ sleepAt[current] # None

\* p still waits for the timer of a sleep it called at the clock value at
\* which the running task called its own.
WaitsSince(p) == p # current /\ sleepAt[p] = sleepAt[current]

\* C1: of the tasks that called sleep at the same clock value with different
\* durations, the one with the shorter duration is resumed first: when a task
\* is resumed from its sleep, no task that called sleep at the same time with
\* a shorter duration is still waiting, whatever the order of the calls.
C1_AscendingDurations ==
    Woken => \A p \in Coros :
        WaitsSince(p) /\ sleepDur[p] # sleepDur[current] => sleepDur[p] > sleepDur[current]

\* A task is resumed before one that called sleep earlier, at the same clock
\* value, with a longer duration.
C1_Witness ==
    /\ Woken
    /\ \E p \in Coros : /\ WaitsSince(p)
                        /\ sleepDur[p] > sleepDur[current]
                        /\ SleptBefore(p, current)

\* C2: tasks that called sleep at the same clock value with the same duration
\* are resumed in the order of their sleep calls: when one is resumed, none
\* that called sleep before it with the same deadline is still waiting.
C2_EqualDeadlinesInCallOrder ==
    Woken => \A p \in Coros :
        WaitsSince(p) /\ sleepDur[p] = sleepDur[current] => ~SleptBefore(p, current)

\* C3: a task that called sleep(d) at clock t is not resumed while the clock
\* is below t + d, whether it was moved to ready as expired or popped after
\* the loop blocked; and two consecutive invocations of a periodic task with
\* delay > 0 are at least delay apart.
C3_NoEarlyWake ==
    /\ Woken => clock >= sleepAt[current] + sleepDur[current]
    /\ \A c \in Coros :
         kind[c] = "periodic" /\ delay[c] > 0 /\ minGap[c] # None => minGap[c] >= delay[c]

\* A periodic task, released by the blocking pop, is invoked exactly delay
\* after its previous invocation.
C3_Witness ==
    /\ pc = "running" /\ blocked /\ phase = "invoked"
    /\ kind[current] = "periodic" /\ delay[current] > 0
    /\ minGap[current] = delay[current]

\* C4: a task canceled while it waited in ready or in the heap is never
\* resumed again: it is either still waiting, registered, or it was discarded
\* at its pop and is in no queue and not in the registry.
C4_CanceledNeverResumed ==
    \A c \in Coros : hitPending[c] =>
        /\ ~(pc = "running" /\ current = c)
        /\ life[c] \in {"live", "dropped"}
        /\ life[c] = "live" => Queued(c) /\ c \in tasks
        /\ life[c] = "dropped" => ~Queued(c) /\ c \notin tasks

\* A periodic task with a delay was canceled while it slept after its first
\* invocation, and was discarded at its pop with no further invocation.
C4_Witness ==
    \E c \in Coros :
        /\ kind[c] = "periodic" /\ n[c] = MaxRepeat /\ delay[c] > 0
        /\ hitPending[c] /\ life[c] = "dropped" /\ calls[c] = 1

\* C5: no cancel call raises, whatever the state of the task.
C5_CancelNeverRaises == ~cancelError

\* C6: when run has drained, a periodic task scheduled with n > 0 and never
\* canceled has invoked its callable exactly n times, with or without a delay.
C6_ExactlyNCalls ==
    pc = "drained" => \A c \in Coros :
        kind[c] = "periodic" /\ n[c] > 0 /\ ~is_canceled[c] => calls[c] = n[c]

\* Run has drained two periodic tasks with n = MaxRepeat, one with a delay and
\* one without.
C6_Witness ==
    /\ pc = "drained"
    /\ \E c, b \in Coros :
        /\ kind[c] = "periodic" /\ kind[b] = "periodic"
        /\ n[c] = MaxRepeat /\ n[b] = MaxRepeat
        /\ delay[c] > 0 /\ delay[b] = 0
        /\ ~is_canceled[c] /\ ~is_canceled[b]

\* C7: ready is first in, first out: a task is resumed only when everything
\* that was in ready when it was appended has been popped since, and no task
\* is in ready twice.
C7_ReadyFifo ==
    /\ pc = "running" => ahead[current] = {}
    /\ \A i, j \in 1..Len(ready) : i # j => ready[i] # ready[j]

\* A task that yielded runs again while a task that was in front of it has
\* run in between and waits behind it now.
C7_Witness ==
    /\ pc = "running" /\ kind[current] = "coro"
    /\ fuel[current] < MaxFuel /\ deadline[current] = None
    /\ \E p \in Range(ready) : fuel[p] < MaxFuel /\ deadline[p] = None

\* A periodic task scheduled with n = 0 is pending and not canceled: it never
\* completes.
NeverEnding ==
    \E c \in Coros :
        kind[c] = "periodic" /\ n[c] = 0 /\ life[c] = "live" /\ ~is_canceled[c]

\* C8: run returns only with ready and the heap empty, and the registry is
\* empty then; and it does return: unless a task fails, or a task that never
\* completes stays pending without being canceled, run eventually drains.
C8_DrainsWhenAllEnd ==
    /\ [](pc = "drained" => ready = <<>> /\ sleeping = <<>> /\ tasks = {})
    /\ \/ <>(pc = "drained")
       \/ <>(pc = "aborted")
       \/ <>[]NeverEnding

\* Run has drained after two tasks completed, one of them canceled on the way.
C8_Witness ==
    /\ pc = "drained" /\ ready = <<>> /\ sleeping = <<>> /\ tasks = {}
    /\ \E c, b \in Coros : life[c] = "done" /\ life[b] = "dropped"

\* C9: once a task has failed, run has ended with the error: the loop is not
\* at an iteration and no task is running.
C9_ErrorStopsLoop ==
    (\E c \in Coros : life[c] = "failed") => pc = "aborted"

\* A task has failed while other tasks wait in ready and in the heap.
C9_Witness ==
    /\ \E c \in Coros : life[c] = "failed"
    /\ pc = "aborted" /\ ready # <<>> /\ sleeping # <<>>

\* C10: an assignment to top (left) leaves pos_hint with None in its first
\* (second) component and the other component as it was, an assignment to
\* height (width) does the same to size_hint, and the other hint is untouched.
C10_DirectSetClearsHint ==
    /\ lastSet.attr = "top"    => pos_hint = <<NoHint, lastSet.pos[2]>> /\ size_hint = lastSet.size
    /\ lastSet.attr = "left"   => pos_hint = <<lastSet.pos[1], NoHint>> /\ size_hint = lastSet.size
    /\ lastSet.attr = "height" => size_hint = <<NoHint, lastSet.size[2]>> /\ pos_hint = lastSet.pos
    /\ lastSet.attr = "width"  => size_hint = <<lastSet.size[1], NoHint>> /\ pos_hint = lastSet.pos


\* The integer nearest to num / 10, the even one on a tie.
IsRounded(r, num) ==
    LET d == IF 10 * r >= num THEN 10 * r - num ELSE num - 10 * r
    IN d <= 5 /\ (d = 5 => r % 2 = 0)

\* C20 as stated: convert returns spec for a non-negative integer spec,
\* bounds + spec for a negative integer spec, and round(spec * bounds) for a
\* fractional spec of either sign.
C20_ConvertAsStated ==
    converted.called =>
        LET v == converted.pos[2]
            b == converted.bounds
        IN IF converted.pos[1] = "int"
           THEN converted.result = (IF v >= 0 THEN v ELSE b + v)
           ELSE IsRounded(converted.result, v * b)

\* C20, amended: convert returns spec for a non-negative integer spec and
\* bounds + spec for a negative one (negative still when spec < -bounds); for a
\* fractional spec, with r = round(spec * bounds), it returns r when r >= 0 and
\* bounds + r when r < 0.
C20_ConvertWrapsRounded ==
    converted.called =>
        LET v == converted.pos[2]
            b == converted.bounds
        IN IF converted.pos[1] = "int"
           THEN converted.result = (IF v >= 0 THEN v ELSE b + v)
           ELSE \E r \in -(MaxTenths * MaxBound)..(MaxTenths * MaxBound) :
                    /\ IsRounded(r, v * b)
                    /\ converted.result = (IF r >= 0 THEN r ELSE b + r)

\* convert(-0.5, 4): the product rounds to -2, below zero
C20_Witness ==
    /\ converted.called
    /\ converted.pos = <<"float", -5>>
    /\ converted.bounds = 4
    /\ converted.result = 2


\* The parent chain of w, followed upwards, arrives at the root widget.
RECURSIVE ChainReaches(_, _, _)
ChainReaches(w, target, steps) ==
    \/ w = target
    \/ steps > 0 /\ parent[w] # None /\ ChainReaches(parent[w], target, steps - 1)

AttachedToRoot(w) == ChainReaches(w, Root, NumWidgets)

\* w and the widgets below it.
Subtree(w) == {d \in Widgets : ChainReaches(d, w, NumWidgets)}

\* C11: update_geometry called on a widget attached to the root, straight
\* after a call that resolved the same widget (update_geometry, or the
\* add_widget / new_widget that attached it), leaves top, left, height, width,
\* pos_hint, size_hint and the window of every widget as that call left them.
C11_UpdateGeometryIdempotent ==
    lastOp.op = "update_geometry" /\ lastOp.again /\ AttachedToRoot(lastOp.widget)
        => geometry = lastOp.geometry

\* the second of two calls in a row on an attached widget that has a float
\* size hint and a child
C11_Witness ==
    /\ lastOp.op = "update_geometry" /\ lastOp.again /\ AttachedToRoot(lastOp.widget)
    /\ geometry[lastOp.widget].size_hint[1] = <<"float", 5>>
    /\ children[lastOp.widget] # <<>>
    /\ geometry[lastOp.widget].height = 2

\* Widget d has a size and a window of that size, and where it has a hint the
\* attribute is the hint converted against its parent's height or width.
Resolved(d) ==
    LET g == geometry[d]
        h == geometry[parent[d]].height
        w == geometry[parent[d]].width
    IN /\ g.height # None /\ g.width # None
       /\ g.window = <<g.height, g.width + 1>>
       /\ g.pos_hint[1] # NoHint => g.top = convert(g.pos_hint[1], h)
       /\ g.pos_hint[2] # NoHint => g.left = convert(g.pos_hint[2], w)
       /\ g.size_hint[1] # NoHint => g.height = convert(g.size_hint[1], h)
       /\ g.size_hint[2] # NoHint => g.width = convert(g.size_hint[2], w)

\* C12: update_geometry on a widget whose parent chain does not reach the
\* root changes no attribute of any widget; after update_geometry on a widget
\* attached to the root, and after new_widget or add_widget under a parent
\* attached to the root, the widget and all widgets below it are resolved; a
\* widget made by new_widget under a parent without a root has no window.
C12_ResolvesIffRooted ==
    /\ lastOp.op = "update_geometry" /\ ~AttachedToRoot(lastOp.widget)
           => geometry = lastOp.geometry
    /\ lastOp.op \in {"update_geometry", "new_widget", "add_widget"} /\ ~lastOp.error
         /\ AttachedToRoot(lastOp.widget)
           => \A d \in Subtree(lastOp.widget) : Resolved(d)
    /\ lastOp.op = "new_widget" /\ ~lastOp.error /\ ~AttachedToRoot(lastOp.widget)
           => geometry[lastOp.widget].window = NoWindow

\* a widget with a child was attached under the root by add_widget, and both
\* have their windows
C12_Witness ==
    /\ lastOp.op = "add_widget" /\ AttachedToRoot(lastOp.widget)
    /\ children[lastOp.widget] # <<>>
    /\ \A d \in Subtree(lastOp.widget) : geometry[d].window # NoWindow

\* update_geometry was called on a widget with hints and a parent, the
\* parent not attached to the root
C12_WitnessDetached ==
    /\ lastOp.op = "update_geometry" /\ ~AttachedToRoot(lastOp.widget)
    /\ parent[lastOp.widget] # None
    /\ geometry[lastOp.widget].size_hint[1] # NoHint

\* C17: new_widget with a type name that is not registered raises, and leaves
\* the children, the group registry, the parents, the geometry and the number
\* of widgets as they were.
C17_UnknownTypeFailsFirst ==
    lastOp.op = "new_widget" /\ lastOp.name # "None" /\ lastOp.name \notin types
        => /\ lastOp.error
           /\ children = lastOp.children
           /\ group = lastOp.group
           /\ parent = lastOp.parent
           /\ geometry = lastOp.geometry
           /\ made = lastOp.made

\* new_widget("Gauge") was called on a rooted parent that has a child in a group
C17_Witness ==
    /\ lastOp.op = "new_widget" /\ lastOp.name = "Gauge" /\ lastOp.error
    /\ AttachedToRoot(lastOp.widget)
    /\ children[lastOp.widget] # <<>>
    /\ group[lastOp.widget] # <<>>


\* The order the claim gives for the press handlers below w: siblings from the
\* last of children to the first, a widget before the widgets below it.
RECURSIVE PressOrder(_)
RECURSIVE PressOrderOf(_, _)
PressOrder(w) == PressOrderOf(children[w], Len(children[w]))

PressOrderOf(cs, i) ==
    IF i = 0 THEN <<>>
    ELSE <<cs[i]>> \o PressOrder(cs[i]) \o PressOrderOf(cs, i - 1)

\* s up to and with its first element that handles the key; all of s when
\* none does.
UpToHandled(s, key) ==
    LET hs == {i \in 1..Len(s) : s[i] \in key}
    IN IF hs = {} THEN s
       ELSE SubSeq(s, 1, CHOOSE i \in hs : \A j \in hs : i <= j)

\* The handlers a dispatch is to go through: for a widget all the widgets
\* below it, for the ScreenManager the widgets it holds.
Handlers ==
    IF lastOp.op = "dispatch" THEN PressOrder(press.on)
    ELSE LET ws == children[Root] IN [i \in 1..Len(ws) |-> ws[Len(ws) + 1 - i]]

FullyInside ==
    /\ drawn.child.top >= 0 /\ drawn.child.left >= 0
    /\ drawn.child.top + drawn.child.height <= drawn.parent[1]
    /\ drawn.child.left + drawn.child.width <= drawn.parent[2]

\* C13: Widget.refresh of a parent with an opaque child that lies fully
\* inside ends without error and leaves the child's cell (r - t, c - l) on
\* every parent cell of rows t..t+h-1 and columns l..l+w-1, and every other
\* parent cell as it was.
C13_OpaqueInsideExact ==
    drawn.by = "widget" /\ ~drawn.child.transparent /\ FullyInside =>
        /\ drawn.outcome = "ok"
        /\ \A d \in DOMAIN drawn.cells :
              LET r == d[1] - drawn.child.top
                  c == d[2] - drawn.child.left
              IN drawn.cells[d] =
                    IF r \in 0..(drawn.child.height - 1) /\ c \in 0..(drawn.child.width - 1)
                    THEN ChildCell(r, c) ELSE ParentCell(d[1], d[2])

\* C14: a refresh (Widget.refresh or ScreenManager.refresh) with an opaque
\* child at top = -1 and left >= 0 ends without error; every parent cell it
\* changed lies in a row R < height - 1 and holds the child's cell of row
\* R + 1, and every cell of the child's rows 1..height-1 that has a place on
\* the parent is there, one row up.
C14_NegativeTopClipsFirstRow ==
    /\ drawn.by \in {"widget", "screen"} /\ ~drawn.child.transparent
    /\ drawn.child.top = -1 /\ drawn.child.left >= 0
    =>
    /\ drawn.outcome = "ok"
    /\ \A d \in DOMAIN drawn.cells :
          drawn.cells[d] # ParentCell(d[1], d[2]) =>
              /\ d[1] < drawn.child.height - 1
              /\ \E c \in 0..drawn.child.width :
                    d[2] = drawn.child.left + c /\ drawn.cells[d] = ChildCell(d[1] + 1, c)
    /\ \A r \in 1..(drawn.child.height - 1), c \in 0..(drawn.child.width - 1) :
          r - 1 < drawn.parent[1] /\ drawn.child.left + c < drawn.parent[2]
              => drawn.cells[<<r - 1, drawn.child.left + c>>] = ChildCell(r, c)

\* The child of the last refresh has no cell on the parent.
FullyOutside ==
    \/ drawn.child.top >= drawn.parent[1]
    \/ drawn.child.left >= drawn.parent[2]
    \/ drawn.child.top + drawn.child.height <= 0
    \/ drawn.child.left + drawn.child.width <= 0

\* C15: a refresh (Widget.refresh, or the array widget's refresh with its
\* bounds) with a child that lies entirely outside ends without error, copies
\* no cell (so it reads none, inside or outside the child's surface) and
\* leaves every parent cell as it was.
C15_OutsideContributesNothing ==
    drawn.by \in {"widget", "array"} /\ FullyOutside =>
        /\ drawn.outcome = "ok"
        /\ drawn.copies = {}
        /\ \A d \in DOMAIN drawn.cells : drawn.cells[d] = ParentCell(d[1], d[2])

\* ------------------------------------------------------------------ C18
\* How many positions of the two queues hold task c.
QueuePositions(c) ==
    Cardinality({i \in 1..Len(ready) : ready[i] = c})
    + Cardinality({i \in 1..Len(sleeping) : sleeping[i] = c})

\* C18: whenever no task is being resumed (before run, between iterations,
\* after run has ended) the registry holds exactly the tasks that are in the
\* ready queue or the timer heap, and each of them is at exactly one queue
\* position.
C18_RegistryMatchesQueues ==
    pc # "running" =>
        /\ tasks = Range(ready) \cup Range(sleeping)
        /\ \A c \in tasks : QueuePositions(c) = 1

\* ------------------------------------------------------------------ C19
\* The timers whose deadline has passed at the start of an iteration.
Due == {c \in Range(sleeping) : deadline[c] <= clock}

\* Some task is ready once the expired timers count as ready.
SomeReady == ready # <<>> \/ Due # {}

\* A step that is one iteration of the loop: it takes a task out of a queue.
LoopIteration == pc = "loop" /\ <<ready, sleeping>>' # <<ready, sleeping>>

\* The smallest deadline in the timer heap.
EarliestDeadline ==
    CHOOSE d \in {deadline[c] : c \in Range(sleeping)} :
        \A c \in Range(sleeping) : d <= deadline[c]

\* The process blocks only when nothing is ready, for the earliest deadline
\* minus now, which is not negative; otherwise no time is spent blocking.
BlocksOnlyWhenIdle ==
    /\ blocked' => /\ ~SomeReady
                   /\ clock' - clock = EarliestDeadline - clock
                   /\ clock' - clock >= 0
    /\ ~blocked' => clock' = clock

\* When some task is ready the iteration takes a ready task and does not block.
TakesReadyTask ==
    SomeReady => /\ ~blocked'
                 /\ current' \in Range(ready) \cup Due
                 /\ current' \notin Range(ready') \cup Range(sleeping')

\* C19 as stated: the loop blocks only in an iteration where the ready queue
\* is empty after the expired timers were moved, for a duration that is never
\* negative; in every iteration where some task is ready, a ready task is
\* resumed without blocking.
C19_ReadyTaskResumed ==
    [][LoopIteration =>
          /\ BlocksOnlyWhenIdle
          /\ TakesReadyTask
          /\ SomeReady => pc' = "running"]_vars

\* C19, amended: the loop blocks only in an iteration where the ready queue is
\* empty after the expired timers were moved, for a duration that is never
\* negative; in every iteration where some task is ready, a ready task is
\* taken without blocking, and it is resumed unless it was canceled, in which
\* case it is discarded and the loop goes on.
C19_ReadyTaskTaken ==
    [][LoopIteration =>
          /\ BlocksOnlyWhenIdle
          /\ TakesReadyTask
          /\ SomeReady => IF is_canceled[current']
                          THEN pc' = "loop" /\ current' \notin tasks'
                          ELSE pc' = "running"]_vars

\* The loop has just blocked until the earliest deadline and resumed that
\* task, while another timer is still pending.
C19_Witness ==
    /\ blocked /\ pc = "running"
    /\ clock = deadline[current] /\ clock > 0
    /\ sleeping # <<>>

\* ------------------------------------------------------------------ C21
\* The position of task c in the sequence s, 0 when it is not there.
PositionIn(s, c) == IF c \in Range(s) THEN CHOOSE i \in 1..Len(s) : s[i] = c ELSE 0

\* The iteration moves every expired timer out of the heap, and one that it
\* does not resume at once waits in ready behind every task that was in ready
\* before.
ExpiredGoToBack ==
    \A c \in Due :
        /\ c \notin Range(sleeping')
        /\ c = current' \/ c \in Range(ready')
        /\ \A p \in Range(ready) \cap Range(ready') :
              c \in Range(ready') => PositionIn(ready', p) < PositionIn(ready', c)

\* While a task waits in ready, every iteration takes a task that was ahead of
\* it, and that task is not ahead of it afterwards.
OnlyThoseAhead ==
    \A c \in Range(ready) \ {current'} :
        current' \in ahead[c] /\ ahead'[c] = ahead[c] \ {current'}

\* A timer of task c has expired and the task is not canceled.
ExpiredTimer(c) == c \in Range(sleeping) /\ deadline[c] <= clock /\ ~is_canceled[c]

\* C21: a sleeping task that is not canceled and whose deadline has passed is
\* moved to the back of ready by the next iteration, every iteration before
\* its resumption takes a task that was ahead of it at that moment, and it is
\* resumed in the end (unless it is canceled meanwhile or a failing task ends
\* run): tasks that keep yielding cannot postpone it forever.
C21_ExpiredTimerNotStarved ==
    /\ [][LoopIteration => ExpiredGoToBack /\ OnlyThoseAhead]_vars
    /\ \A c \in 1..NumMixed :
          ExpiredTimer(c) ~> \/ pc = "running" /\ current = c
                             \/ is_canceled[c]
                             \/ pc = "aborted"

\* A task is resumed from a sleep whose deadline had passed while a periodic
\* task that yields for ever (delay 0, n = 0) waited in front of it, and that
\* task waits in ready again.
C21_Witness ==
    /\ pc = "running" /\ ~blocked
    /\ sleepAt[current] # None /\ deadline[current] <= clock
    /\ \E p \in Range(ready) : kind[p] = "periodic" /\ delay[p] = 0 /\ n[p] = 0

\* ------------------------------------------------------------------ C22
\* C22: once the ScreenManager's input poll has been taken from the queue
\* with the exit key typed, the poll has completed, ready and the heap are
\* empty, and run returns: it goes on to find both queues empty, and no other
\* task is resumed.
C22_ExitKeyEndsRun ==
    current = GetchCoro /\ pending = EXIT /\ pc # "running"
        => /\ life[GetchCoro] = "done"
           /\ ready = <<>> /\ sleeping = <<>>
           /\ pc \in {"loop", "drained"}

\* ------------------------------------------------------------------ C23
\* The widget a z-order call was about: the one given, or the one at the
\* index given in the list as it was.
Restacked ==
    IF restacked.arg[1] = "widget" THEN restacked.arg[2]
    ELSE LET i == restacked.arg[2]
         IN restacked.before[IF i >= 0 THEN i + 1 ELSE Len(restacked.before) + i + 1]

\* No widget is in the list twice.
EachOnce(s) == \A i, j \in 1..Len(s) : i # j => s[i] # s[j]

\* The list s with the widget x left out.
Others(s, x) == SelectSeq(s, LAMBDA y : y # x)

\* C23: after pull_to_front / ScreenManager.top (push_to_back /
\* ScreenManager.bottom) the widget is the last (first) of the list, the list
\* holds the same widgets as before, each once, and the other widgets are in
\* the order they were in; a call that raises leaves the list as it was; and
\* after any sequence of these calls every children list holds exactly the
\* widgets whose parent it belongs to, each once.
C23_ZOrderOnlyPermutes ==
    /\ \A p \in Nodes :
          /\ EachOnce(children[p])
          /\ Range(children[p]) = {w \in Widgets : parent[w] = p}
    /\ restacked.op # "none" /\ lastOp.op = restacked.op =>
          LET after == children[restacked.on]
          IN IF restacked.error # "none" THEN after = restacked.before
             ELSE /\ restacked.op \in {"pull_to_front", "top"}
                        => after[Len(after)] = Restacked
                  /\ restacked.op \in {"push_to_back", "bottom"}
                        => after[1] = Restacked
                  /\ Len(after) = Len(restacked.before)
                  /\ Range(after) = Range(restacked.before)
                  /\ EachOnce(after)
                  /\ Others(after, Restacked) = Others(restacked.before, Restacked)

\* The front-most of three widgets on the screen was sent to the back by its
\* index, so the two others moved up in their order.
C23_Witness ==
    /\ restacked.op = "bottom" /\ lastOp.op = "bottom" /\ restacked.error = "none"
    /\ restacked.arg = <<"int", -1>>
    /\ Len(restacked.before) = 3
    /\ children[Root] = <<restacked.before[3], restacked.before[1], restacked.before[2]>>
    /\ restacked.before # <<1, 2, 3>>

\* ------------------------------------------------------------------ C24
\* Row x (column x) leaves the widget inside its parent on that axis.
InsideOn(axis, x) ==
    LET offset == IF bouncer.has_border THEN 1 ELSE 0
        size   == IF axis = 1 THEN bouncer.height ELSE bouncer.width
    IN offset <= x /\ x <= bouncer.parent[axis] - offset - size

\* The step from pos along vel leaves the parent on that axis.
Exceeds(axis) == ~InsideOn(axis, bouncer.pos[axis] + bouncer.vel[axis])

\* C24: a bouncing widget that starts inside its parent (inside the border,
\* when the parent has one) with unit velocity components has its top and
\* left inside the parent after any number of _bounce steps, and each step
\* negates the velocity component of exactly the axes it exceeded.
C24_BouncerStaysInside ==
    /\ [](bouncer.placed => InsideOn(1, bouncer.top) /\ InsideOn(2, bouncer.left))
    /\ [][bouncer.placed =>
             \A axis \in {1, 2} :
                bouncer'.vel[axis] = IF Exceeds(axis) THEN 0 - bouncer.vel[axis]
                                     ELSE bouncer.vel[axis]]_vars

=============================================================================
